---------------------------- MODULE Spec2Model ----------------------------
(***************************************************************************)
(* Model of osmnx/truncate.py: truncation of a directed multigraph by      *)
(* network distance, polygon or bounding box, removal of isolated nodes    *)
(* and extraction of the largest weakly/strongly connected component.      *)
(*                                                                         *)
(* Graph objects live in a heap (a sequence of graph values indexed by     *)
(* reference), so that G.copy(), in-place G.remove_nodes_from(...) and the *)
(* "return G" of largest_component keep their aliasing behaviour.          *)
(***************************************************************************)
EXTENDS Integers, Sequences, FiniteSets, TLC

\* ------------------------------------------------------------------ bounds
MaxNodes == 3      \* node identifiers are 1..MaxNodes
MaxEdges == 3      \* edges a caller puts into one graph
MaxLength == 1     \* "length" attribute of an edge ranges over 0..MaxLength
MaxDist == 2       \* dist argument ranges over -1..MaxDist
MaxX == 1          \* x coordinate of a node's point ranges over 0..MaxX
MaxY == 0          \* y coordinate of a node's point ranges over 0..MaxY

NodeIds == 1..MaxNodes
Lengths == 0..MaxLength
Dists == (-1)..MaxDist
Grid == (0..MaxX) \X (0..MaxY)
Origin == <<0, 0>>

VARIABLES
    heap,      \* sequence of graph objects; heap[GRef] is the caller's graph
    res,       \* reference returned by the last call (0: nothing returned)
    exc,       \* exception raised by the last call ("none": it returned)
    allocs,    \* graph objects the last call created before it ended
    call,      \* the last call: operation, arguments, caller's graph before it
    phase      \* "idle" | "returned" | "mutated"

vars == <<heap, res, exc, allocs, call, phase>>

GRef == 1

\* --------------------------------------------------- networkx.MultiDiGraph
\* A graph value: node |-> [node id -> point geometry], edges |-> set of
\* [u, v, key, length] records, unique in (u, v, key).
EmptyGraph == [node |-> [n \in {} |-> Origin], edges |-> {}]

Nodes(g) == DOMAIN g.node

\* G.remove_nodes_from(S): nodes of S not in G are ignored, incident edges go
remove_nodes_from(g, S) ==
    [node  |-> [n \in Nodes(g) \ S |-> g.node[n]],
     edges |-> {e \in g.edges : e.u \notin S /\ e.v \notin S}]

\* G.subgraph(S) materialised: induced edges, all parallel keys
subgraph(g, S) ==
    [node  |-> [n \in Nodes(g) \cap S |-> g.node[n]],
     edges |-> {e \in g.edges : e.u \in S /\ e.v \in S}]

successors(g, n) == {e.v : e \in {d \in g.edges : d.u = n}}
predecessors(g, n) == {e.u : e \in {d \in g.edges : d.v = n}}

\* G.degree(): in-degree plus out-degree, a self-loop counts twice
degree(g, n) ==
    Cardinality({e \in g.edges : e.u = n}) + Cardinality({e \in g.edges : e.v = n})

\* G.add_node(n, geometry): the caller's construction of a graph
add_node(g, n, p) ==
    [node  |-> [m \in Nodes(g) \cup {n} |-> IF m = n THEN p ELSE g.node[m]],
     edges |-> g.edges]

\* MultiDiGraph.new_edge_key: len(keydict), incremented while already in use
RECURSIVE FreeKey(_, _)
FreeKey(used, k) == IF k \in used THEN FreeKey(used, k + 1) ELSE k

new_edge_key(g, u, v) ==
    LET used == {e.key : e \in {d \in g.edges : d.u = u /\ d.v = v}}
    IN  FreeKey(used, Cardinality(used))

add_edge(g, u, v, len) ==
    [node  |-> g.node,
     edges |-> g.edges \cup {[u |-> u, v |-> v, key |-> new_edge_key(g, u, v), length |-> len]}]

\* ------------------------------------------------ networkx collaborators
\* nodes reachable from S along edges: "fwd" successors, "bwd" predecessors,
\* "both" ignoring direction (the traversal of the component algorithms)
RECURSIVE _plain_bfs(_, _, _)
_plain_bfs(g, S, dir) ==
    LET next == UNION {(IF dir \in {"fwd", "both"} THEN successors(g, n) ELSE {})
                        \cup (IF dir \in {"bwd", "both"} THEN predecessors(g, n) ELSE {})
                       : n \in S}
    IN  IF next \subseteq S THEN S ELSE _plain_bfs(g, S \cup next, dir)

weakly_connected_components(g) == {_plain_bfs(g, {n}, "both") : n \in Nodes(g)}

strongly_connected_components(g) ==
    {_plain_bfs(g, {n}, "fwd") \cap _plain_bfs(g, {n}, "bwd") : n \in Nodes(g)}

connected_components(g, strongly) ==
    IF strongly THEN strongly_connected_components(g) ELSE weakly_connected_components(g)

\* nx.is_weakly_connected / nx.is_strongly_connected on a graph with nodes:
\* the first component holds every node
is_connected(g, strongly) ==
    \E c \in connected_components(g, strongly) : Cardinality(c) = Cardinality(Nodes(g))

\* weight of the hop u -> v in a multigraph: the least "length" among the
\* parallel edges
_weight_function(g, u, v) ==
    LET ls == {e.length : e \in {d \in g.edges : d.u = u /\ d.v = v}}
    IN  CHOOSE l \in ls : \A k \in ls : l <= k

\* Dijkstra: dist maps the finalised nodes, seen the nodes met so far
RECURSIVE _dijkstra(_, _, _)
_dijkstra(g, dist, seen) ==
    LET fringe == DOMAIN seen \ DOMAIN dist
    IN  IF fringe = {} THEN dist
        ELSE LET v == CHOOSE x \in fringe : \A y \in fringe : seen[x] <= seen[y]
                 d == seen[v]
                 dist2 == [n \in DOMAIN dist \cup {v} |-> IF n = v THEN d ELSE dist[n]]
                 succ == successors(g, v) \ DOMAIN dist2
                 vu(n) == d + _weight_function(g, v, n)
                 seen2 == [n \in DOMAIN seen \cup succ |->
                             IF n \in succ /\ (n \notin DOMAIN seen \/ vu(n) < seen[n])
                             THEN vu(n) ELSE seen[n]]
             IN  _dijkstra(g, dist2, seen2)

\* nx.shortest_path_length(G, source=source, weight="length") for a source
\* in G: the mapping from each reachable node to its least cumulative length
shortest_path_length(g, source) ==
    _dijkstra(g, [n \in {} |-> 0], [n \in {source} |-> 0])

\* convert.graph_to_gdfs(G, edges=False)["geometry"]: node id -> point
graph_to_gdfs(g) == g.node

\* utils_geo._intersect_index_quadrats: the nodes whose point lies within
\* the polygon (a polygon is the set of grid points it covers, boundary
\* included)
_intersect_index_quadrats(gs_nodes, polygon) ==
    {n \in DOMAIN gs_nodes : gs_nodes[n] \in polygon}

Min(a, b) == IF a <= b THEN a ELSE b
Max(a, b) == IF a >= b THEN a ELSE b

\* utils_geo.bbox_to_poly: bbox = (north, south, east, west) becomes the
\* rectangle with corners (west, south), (east, south), (east, north),
\* (west, north)
bbox_to_poly(bbox) ==
    LET north == bbox[1]
        south == bbox[2]
        east  == bbox[3]
        west  == bbox[4]
    IN  {p \in Grid : /\ Min(west, east) <= p[1] /\ p[1] <= Max(west, east)
                      /\ Min(south, north) <= p[2] /\ p[2] <= Max(south, north)}

\* ----------------------------------------------------------- heap plumbing
\* outcome of a (partial) computation: the heap it leaves, the reference it
\* returns (0: none) and the exception it raises ("none": it returned)
Returned(h, r) == [heap |-> h, ret |-> r, exc |-> "none"]
Raised(h, x) == [heap |-> h, ret |-> 0, exc |-> x]

\* a slip: no copy is made, the callee works on the caller's object
copy_alias(h, r) == Returned(h, r)

\* G.copy(): a new graph object with the same nodes, edges and attributes
copy(h, r) == Returned(Append(h, h[r]), Len(h) + 1)

\* ------------------------------------------------ remove_isolated_nodes
\* a slip: only the outgoing edges are counted
isolated_nodes_out_degree(G) ==
    {node \in Nodes(G) : Cardinality({e \in G.edges : e.u = node}) < 1}

\* the set of all isolated nodes
isolated_nodes(G) == {node \in Nodes(G) : degree(G, node) < 1}

remove_isolated_nodes(h, r) ==
    LET c == copy(h, r)
        G == c.heap[c.ret]
    IN  Returned([c.heap EXCEPT ![c.ret] = remove_nodes_from(G, isolated_nodes(G))], c.ret)

\* ---------------------------------------------------- largest_component
\* a slip: any component is taken, not a largest one
AnyCCs(g, strongly) == connected_components(g, strongly)

\* max(connected_components(G), key=len) is the first component of maximal
\* size in the collaborator's iteration order, which follows the insertion
\* order of the nodes: every maximal component is a possible choice.
LargestCCs(g, strongly) ==
    {c \in connected_components(g, strongly) :
        \A d \in connected_components(g, strongly) : Cardinality(d) <= Cardinality(c)}

\* the set of possible outcomes
largest_component(h, r, strongly) ==
    IF Nodes(h[r]) = {}
    THEN {Raised(h, "NetworkXPointlessConcept")}
    ELSE IF ~is_connected(h[r], strongly)
         THEN {Returned(Append(h, subgraph(h[r], largest_cc)), Len(h) + 1)
                 : largest_cc \in LargestCCs(h[r], strongly)}
         ELSE {Returned(h, r)}

\* -------------------------------------------------- truncate_graph_dist
\* a slip: the comparison includes dist itself
distant_nodes_ge(distances, dist) == {k \in DOMAIN distances : distances[k] >= dist}

\* a slip: the nodes without a distance are forgotten
unreachable_nodes_forgotten(G, distances) == {}

\* every node further than dist away
distant_nodes(distances, dist) == {k \in DOMAIN distances : distances[k] > dist}

\* the nodes without a distance: not reachable from source_node
unreachable_nodes(G, distances) == Nodes(G) \ DOMAIN distances

\* remove any isolated nodes and retain only the largest component
dist_retain(h, r, retain_all) ==
    IF ~retain_all
    THEN LET i == remove_isolated_nodes(h, r) IN largest_component(i.heap, i.ret, FALSE)
    ELSE {Returned(h, r)}

\* the set of possible outcomes
truncate_graph_dist(h, r, source_node, dist, retain_all) ==
    IF source_node \notin Nodes(h[r])
    THEN {Raised(h, "NodeNotFound")}
    ELSE LET distances == shortest_path_length(h[r], source_node)
             far == distant_nodes(distances, dist) \cup unreachable_nodes(h[r], distances)
             c == copy(h, r)
             h2 == [c.heap EXCEPT ![c.ret] = remove_nodes_from(c.heap[c.ret], far)]
         IN  dist_retain(h2, c.ret, retain_all)

\* ----------------------------------------------- truncate_graph_polygon
\* a slip: the emptiness check is dropped
no_nodes_within_unchecked(to_keep) == FALSE

\* a slip: only the successors count as neighbours
nodes_to_remove_successors(G, nodes_outside_poly, truncate_by_edge) ==
    IF truncate_by_edge
    THEN {node \in nodes_outside_poly : successors(G, node) \subseteq nodes_outside_poly}
    ELSE nodes_outside_poly

\* a slip: retain_all is ignored, the result is always pruned
polygon_retain_always_prunes(h, r, retain_all) ==
    LET i == remove_isolated_nodes(h, r) IN largest_component(i.heap, i.ret, FALSE)

\* no graph nodes within the polygon
no_nodes_within(to_keep) == Cardinality(to_keep) = 0

\* the nodes to remove, given the nodes whose point lies outside the polygon
nodes_to_remove(G, nodes_outside_poly, truncate_by_edge) ==
    IF truncate_by_edge
    THEN {node \in nodes_outside_poly :
            (successors(G, node) \cup predecessors(G, node)) \subseteq nodes_outside_poly}
    ELSE nodes_outside_poly

polygon_retain(h, r, retain_all) ==
    IF ~retain_all
    THEN LET i == remove_isolated_nodes(h, r) IN largest_component(i.heap, i.ret, FALSE)
    ELSE {Returned(h, r)}

\* the set of possible outcomes
truncate_graph_polygon(h, r, polygon, retain_all, truncate_by_edge) ==
    LET gs_nodes == graph_to_gdfs(h[r])
        to_keep == _intersect_index_quadrats(gs_nodes, polygon)
    IN  IF no_nodes_within(to_keep)
        THEN {Raised(h, "ValueError")}
        ELSE LET nodes_outside_poly == DOMAIN gs_nodes \ to_keep
                 c == copy(h, r)
                 h2 == [c.heap EXCEPT ![c.ret] =
                          remove_nodes_from(c.heap[c.ret],
                              nodes_to_remove(h[r], nodes_outside_poly, truncate_by_edge))]
             IN  polygon_retain(h2, c.ret, retain_all)

\* -------------------------------------------------- truncate_graph_bbox
truncate_graph_bbox(h, r, bbox, truncate_by_edge, retain_all) ==
    truncate_graph_polygon(h, r, bbox_to_poly(bbox), retain_all, truncate_by_edge)

\* ------------------------------------------------------------ the caller
NoCall == [op |-> "none", source_node |-> 0, dist |-> 0, retain_all |-> FALSE,
           truncate_by_edge |-> FALSE, strongly |-> FALSE, polygon |-> {},
           bbox |-> <<0, 0, 0, 0>>, pre |-> EmptyGraph]

Init ==
    /\ heap = <<EmptyGraph>>
    /\ res = 0
    /\ exc = "none"
    /\ allocs = 0
    /\ call = NoCall
    /\ phase = "idle"

\* smallest node identifier not in the graph
FreshNode(g) == CHOOSE n \in NodeIds \ Nodes(g) : \A m \in NodeIds \ Nodes(g) : n <= m

\* the caller builds its graph: G.add_node(n, x=.., y=..)
BuildNode ==
    /\ phase = "idle"
    /\ Nodes(heap[GRef]) # NodeIds
    /\ \E p \in Grid : heap' = <<add_node(heap[GRef], FreshNode(heap[GRef]), p)>>
    /\ UNCHANGED <<res, exc, allocs, call, phase>>

\* the caller builds its graph: G.add_edge(u, v, length=..)
BuildEdge ==
    /\ phase = "idle"
    /\ Cardinality(heap[GRef].edges) < MaxEdges
    /\ \E u \in Nodes(heap[GRef]), v \in Nodes(heap[GRef]), len \in Lengths :
          heap' = <<add_edge(heap[GRef], u, v, len)>>
    /\ UNCHANGED <<res, exc, allocs, call, phase>>

\* a call returns or raises: only the caller's graph and the returned graph
\* stay referenced, the intermediate objects are garbage
Finish(m, c) ==
    /\ heap' = IF m.ret \in {0, GRef} THEN <<m.heap[GRef]>> ELSE <<m.heap[GRef], m.heap[m.ret]>>
    /\ res' = IF m.ret \in {0, GRef} THEN m.ret ELSE 2
    /\ exc' = m.exc
    /\ allocs' = Len(m.heap) - Len(heap)
    /\ call' = [c EXCEPT !.pre = heap[GRef]]
    /\ phase' = "returned"

CallRemoveIsolatedNodes ==
    /\ phase = "idle"
    /\ Finish(remove_isolated_nodes(heap, GRef), [NoCall EXCEPT !.op = "remove_isolated_nodes"])

CallLargestComponent ==
    /\ phase = "idle"
    /\ \E strongly \in BOOLEAN :
         \E m \in largest_component(heap, GRef, strongly) :
            Finish(m, [NoCall EXCEPT !.op = "largest_component", !.strongly = strongly])

CallTruncateGraphDist ==
    /\ phase = "idle"
    /\ \E source_node \in NodeIds, dist \in Dists, retain_all \in BOOLEAN :
         \E m \in truncate_graph_dist(heap, GRef, source_node, dist, retain_all) :
            Finish(m, [NoCall EXCEPT !.op = "truncate_graph_dist", !.source_node = source_node,
                                     !.dist = dist, !.retain_all = retain_all])

CallTruncateGraphPolygon ==
    /\ phase = "idle"
    /\ \E polygon \in SUBSET Grid, retain_all \in BOOLEAN, truncate_by_edge \in BOOLEAN :
         \E m \in truncate_graph_polygon(heap, GRef, polygon, retain_all, truncate_by_edge) :
            Finish(m, [NoCall EXCEPT !.op = "truncate_graph_polygon", !.polygon = polygon,
                                     !.retain_all = retain_all,
                                     !.truncate_by_edge = truncate_by_edge])

CallTruncateGraphBbox ==
    /\ phase = "idle"
    /\ \E north \in 0..MaxY, south \in 0..MaxY, east \in 0..MaxX, west \in 0..MaxX,
          retain_all \in BOOLEAN, truncate_by_edge \in BOOLEAN :
         \E m \in truncate_graph_bbox(heap, GRef, <<north, south, east, west>>,
                                      truncate_by_edge, retain_all) :
            Finish(m, [NoCall EXCEPT !.op = "truncate_graph_bbox",
                                     !.bbox = <<north, south, east, west>>,
                                     !.polygon = bbox_to_poly(<<north, south, east, west>>),
                                     !.retain_all = retain_all,
                                     !.truncate_by_edge = truncate_by_edge])

\* the graph object behind reference r after one in-place mutation by the
\* caller: remove_node, add_node, add_edge or remove_edge
Mutations(g) ==
    {remove_nodes_from(g, {n}) : n \in Nodes(g)}
    \cup (IF Nodes(g) # NodeIds THEN {add_node(g, FreshNode(g), Origin)} ELSE {})
    \cup (IF Cardinality(g.edges) < MaxEdges
          THEN {add_edge(g, uv[1], uv[2], MaxLength) : uv \in Nodes(g) \X Nodes(g)}
          ELSE {})
    \cup {[g EXCEPT !.edges = @ \ {e}] : e \in g.edges}

\* the caller mutates the graph it was returned, in place, and then drops
\* its reference to it
MutateResult ==
    /\ phase = "returned"
    /\ res # 0
    /\ \E g \in Mutations(heap[res]) : heap' = <<[heap EXCEPT ![res] = g][GRef]>>
    /\ res' = 0
    /\ exc' = "none"
    /\ allocs' = 0
    /\ call' = NoCall
    /\ phase' = "mutated"

\* the caller starts over with a new, empty graph
NewGraph ==
    /\ phase = "mutated"
    /\ heap' = <<EmptyGraph>>
    /\ phase' = "idle"
    /\ UNCHANGED <<res, exc, allocs, call>>

\* the caller drops the returned graph
Discard ==
    /\ phase = "returned"
    /\ heap' = <<heap[GRef]>>
    /\ res' = 0
    /\ exc' = "none"
    /\ allocs' = 0
    /\ call' = NoCall
    /\ phase' = "idle"

Next ==
    \/ BuildNode
    \/ BuildEdge
    \/ CallRemoveIsolatedNodes
    \/ CallLargestComponent
    \/ CallTruncateGraphDist
    \/ CallTruncateGraphPolygon
    \/ CallTruncateGraphBbox
    \/ MutateResult
    \/ NewGraph
    \/ Discard

Spec == Init /\ [][Next]_vars

\* ================================================================ properties
\* What the properties say about a graph is stated from the edge set itself
\* (walks, incident edges), not through the traversals used by the model.

Done(op) == phase = "returned" /\ call.op = op
Truncated == Done("truncate_graph_dist") \/ Done("truncate_graph_polygon")
                \/ Done("truncate_graph_bbox")
Spatial == Done("truncate_graph_polygon") \/ Done("truncate_graph_bbox")

\* the graph g cut down to the nodes of S: attributes and parallel keys kept
Induced(g, S) ==
    [node  |-> [n \in Nodes(g) \cap S |-> g.node[n]],
     edges |-> {e \in g.edges : e.u \in S /\ e.v \in S}]

Incident(g, n) == {e \in g.edges : e.u = n \/ e.v = n}

RECURSIVE WalkLength(_, _)
WalkLength(w, k) == IF k = 0 THEN 0 ELSE w[k].length + WalkLength(w, k - 1)

\* some directed walk of edges leads from s to t with cumulative length <= d
WithinDist(g, s, t, d) ==
    \E k \in 0..Cardinality(g.edges) :
       \E w \in [1..k -> g.edges] :
          /\ IF k = 0 THEN s = t ELSE w[1].u = s /\ w[k].v = t
          /\ \A i \in 1..(k - 1) : w[i].v = w[i + 1].u
          /\ WalkLength(w, k) <= d

\* t can be reached from s at all
Reachable(g, s, t) == WithinDist(g, s, t, Cardinality(g.edges) * MaxLength)

\* ----------------------------------------------------------------------- C1
\* C1 (non-mutation): when any of the five operations has returned or raised,
\* the caller's graph object holds exactly the nodes, edges (origin,
\* destination, key) and attributes it held before the call.
C1_NonMutation == phase = "returned" => heap[GRef] = call.pre

\* a truncation that returned a graph smaller than the caller's
C1_Witness ==
    /\ Done("truncate_graph_polygon")
    /\ res # 0
    /\ Nodes(heap[res]) # Nodes(call.pre)
    /\ heap[res].edges # call.pre.edges
    /\ heap[GRef] = call.pre

\* ----------------------------------------------------------------------- C2
\* C2 (distance truncation boundary): with retain_all=True and source_node in
\* G, truncate_graph_dist returns a graph whose nodes are exactly the nodes
\* with a directed walk from source_node of cumulative length <= dist: a node
\* at exactly dist stays, a node farther away or unreachable goes.
C2_DistBoundary ==
    (Done("truncate_graph_dist") /\ call.retain_all /\ call.source_node \in Nodes(call.pre))
    => /\ exc = "none"
       /\ res # 0
       /\ Nodes(heap[res]) =
             {n \in Nodes(call.pre) : WithinDist(call.pre, call.source_node, n, call.dist)}

\* a node at exactly dist > 0 is kept next to a reachable node beyond dist
\* that is removed
C2_Witness ==
    /\ Done("truncate_graph_dist") /\ call.retain_all /\ exc = "none"
    /\ call.dist > 0
    /\ \E a \in Nodes(heap[res]) :
          /\ WithinDist(call.pre, call.source_node, a, call.dist)
          /\ ~WithinDist(call.pre, call.source_node, a, call.dist - 1)
    /\ \E b \in Nodes(call.pre) \ Nodes(heap[res]) :
          Reachable(call.pre, call.source_node, b)

C9_IsolationIdempotent ==
    Done("remove_isolated_nodes")
    => /\ exc = "none"
       /\ res # 0
       /\ heap[res] = Induced(call.pre, {n \in Nodes(call.pre) : Incident(call.pre, n) # {}})
       /\ LET again == remove_isolated_nodes(<<heap[res]>>, 1)
          IN  /\ again.exc = "none"
              /\ again.heap[again.ret] = heap[res]

\* an isolated node is removed; a node with only an incoming edge and a node
\* with only an outgoing edge stay
C9_Witness ==
    /\ Done("remove_isolated_nodes") /\ exc = "none"
    /\ Nodes(call.pre) \ Nodes(heap[res]) # {}
    /\ \E a \in Nodes(heap[res]), b \in Nodes(heap[res]) :
          /\ \A e \in Incident(call.pre, a) : e.u = a /\ e.v # a
          /\ \A e \in Incident(call.pre, b) : e.v = b /\ e.u # b

\* ----------------------------------------------------------------------- C4
\* a chain of nodes leads from a to b, each hop along an edge (in its
\* direction when directed, in either direction otherwise)
Linked(g, a, b, directed) ==
    \E k \in 1..Cardinality(Nodes(g)) :
       \E q \in [1..k -> Nodes(g)] :
          /\ q[1] = a /\ q[k] = b
          /\ \A i \in 1..(k - 1) :
                \E e \in g.edges : \/ e.u = q[i] /\ e.v = q[i + 1]
                                   \/ ~directed /\ e.v = q[i] /\ e.u = q[i + 1]

Connected(g, a, b, strongly) ==
    IF strongly THEN Linked(g, a, b, TRUE) /\ Linked(g, b, a, TRUE)
                ELSE Linked(g, a, b, FALSE)

\* S is a connected component of g: non-empty, connected, and maximal
IsComponent(g, S, strongly) ==
    /\ S # {}
    /\ S \subseteq Nodes(g)
    /\ \A a \in S : \A b \in Nodes(g) : (b \in S) <=> Connected(g, a, b, strongly)

IsLargestComponent(g, S, strongly) ==
    /\ IsComponent(g, S, strongly)
    /\ \A T \in SUBSET Nodes(g) :
          IsComponent(g, T, strongly) => Cardinality(T) <= Cardinality(S)

ComponentExtracted ==
    /\ exc = "none"
    /\ res # 0
    /\ IsLargestComponent(call.pre, Nodes(heap[res]), call.strongly)
    /\ heap[res] = Induced(call.pre, Nodes(heap[res]))
    /\ IsComponent(call.pre, Nodes(call.pre), call.strongly) => heap[res] = call.pre

\* C4 as stated (component extraction): for every graph G and both values of
\* strongly, largest_component returns a graph on a component of G of maximal
\* node count with exactly the edges of G inside it (all parallel keys), and
\* a graph equal to G when G is connected.
C4_ComponentExtraction == Done("largest_component") => ComponentExtracted

\* C4 amended: the same for every graph G that has at least one node; on the
\* graph without nodes, which has no component, largest_component raises
\* NetworkXPointlessConcept.
C4_ComponentExtractionNonNull ==
    Done("largest_component")
    => IF Nodes(call.pre) # {} THEN ComponentExtracted
       ELSE exc = "NetworkXPointlessConcept" /\ res = 0

\* a disconnected graph whose largest component carries parallel edges
C4_Witness ==
    /\ Done("largest_component") /\ exc = "none"
    /\ Nodes(heap[res]) # Nodes(call.pre)
    /\ \E e \in heap[res].edges, f \in heap[res].edges :
          e.u = f.u /\ e.v = f.v /\ e.key # f.key

\* ----------------------------------------------------------------------- C5
\* the point lies within the rectangle spanned by bbox = (north, south, east,
\* west), boundary included
InBbox(pt, bbox) ==
    /\ \/ bbox[4] <= pt[1] /\ pt[1] <= bbox[3]
       \/ bbox[3] <= pt[1] /\ pt[1] <= bbox[4]
    /\ \/ bbox[2] <= pt[2] /\ pt[2] <= bbox[1]
       \/ bbox[1] <= pt[2] /\ pt[2] <= bbox[2]

\* the nodes of the caller's graph within the region of the last call
Inside ==
    IF call.op = "truncate_graph_bbox"
    THEN {n \in Nodes(call.pre) : InBbox(call.pre.node[n], call.bbox)}
    ELSE {n \in Nodes(call.pre) : call.pre.node[n] \in call.polygon}

Outside == Nodes(call.pre) \ Inside

\* C5 (polygon truncation emptiness): when no node of G lies within the
\* polygon (or bounding box), the truncation raises ValueError whatever
\* retain_all and truncate_by_edge are, before any graph object is created;
\* and no polygon or bounding-box truncation ever returns a graph without
\* nodes.
C5_EmptyPolygonRaises ==
    Spatial
    => /\ Inside = {} => (exc = "ValueError" /\ res = 0 /\ allocs = 0)
       /\ exc = "none" => Nodes(heap[res]) # {}

\* a bounding box that holds none of the graph's nodes, both flags set
C5_Witness ==
    /\ Done("truncate_graph_bbox")
    /\ Nodes(call.pre) # {}
    /\ Inside = {}
    /\ call.retain_all /\ call.truncate_by_edge
    /\ exc = "ValueError"

\* ----------------------------------------------------------------------- C6
\* the nodes the spatial truncation keeps: the inside nodes and, with
\* truncate_by_edge, the outside nodes sharing an edge with an inside node
SpatialKept ==
    IF call.truncate_by_edge
    THEN Inside \cup {n \in Outside :
                        \E e \in Incident(call.pre, n) : e.u \in Inside \/ e.v \in Inside}
    ELSE Inside

\* C6 (edge-retention heuristic): the spatial truncation removes, with
\* truncate_by_edge=True, exactly the outside nodes none of whose neighbours
\* (predecessors or successors in G) is inside, judged once against the
\* original partition, and with truncate_by_edge=False exactly the outside
\* nodes. The removal set is read off the retain_all=True result.
C6_EdgeRetention ==
    (Spatial /\ Inside # {} /\ call.retain_all)
    => /\ exc = "none"
       /\ Nodes(heap[res]) = SpatialKept

\* B inside, C outside next to B is kept, D outside next to C only is removed
C6_Witness ==
    /\ Done("truncate_graph_polygon") /\ exc = "none"
    /\ call.truncate_by_edge /\ call.retain_all
    /\ \E B \in Inside, C \in Outside \cap Nodes(heap[res]), D \in Outside \ Nodes(heap[res]) :
          /\ \E e \in call.pre.edges : {e.u, e.v} = {B, C}
          /\ \E e \in call.pre.edges : {e.u, e.v} = {C, D}

\* ----------------------------------------------------------------------- C7
\* the copy is reached: no error while the removal set is computed
RemovalComputed ==
    IF call.op = "truncate_graph_dist" THEN call.source_node \in Nodes(call.pre)
    ELSE Inside # {}

\* the caller's graph without the removal set and its incident edges
Pruned ==
    Induced(call.pre,
            IF call.op = "truncate_graph_dist"
            THEN {n \in Nodes(call.pre) :
                    WithinDist(call.pre, call.source_node, n, call.dist)}
            ELSE SpatialKept)

C8_FreshCopy ==
    [][(/\ Done("largest_component")
        /\ exc = "none"
        /\ IsComponent(call.pre, Nodes(call.pre), call.strongly)
        /\ phase' = "mutated")
       => heap'[GRef] = heap[GRef]]_vars

\* ---------------------------------------------------------------------- C10
\* C10 (no failure after the removal set is computed): a truncation that
\* ends in an error has created no graph object, and once the removal set is
\* computed the truncation returns a graph, also when nothing is left of the
\* graph (stated here for dist >= 0, where source_node is not itself removed
\* for its distance).
C10_NoLateFailure ==
    (Truncated /\ call.dist >= 0)
    => /\ exc # "none" => allocs = 0
       /\ RemovalComputed => exc = "none"

=============================================================================
